---- MODULE Spec2Model ----
(***************************************************************************)
(* A model of bot.py: discovery of spreadsheet files (find_sources),       *)
(* normalisation (prepare_files, convert_excel_to_csv), packing            *)
(* (zip_pairs) and the Telegram handlers (send_zip, send_files, start_cmd, *)
(* on_text) that run them between awaited transmissions.                   *)
(*                                                                         *)
(* Strings are sequences of one-character strings, so that str.lower,      *)
(* str.endswith, str.strip, Path.name, Path.stem, os.path.join and the     *)
(* glob patterns are computed as Python computes them (POSIX: fnmatch is   *)
(* case-sensitive and "*" does not match a leading dot).  The file system  *)
(* holds regular files only (fs: path -> content) and a set of             *)
(* directories (dirs).                                                     *)
(*                                                                         *)
(* Spec        the bot as main() builds it: updates handled one by one.    *)
(* SpecOverlap the handlers of concurrent updates interleaving at their    *)
(*             awaits.                                                     *)
(* SpecFiles   find_sources, prepare_files and zip_pairs called on their   *)
(*             own.                                                        *)
(*                                                                         *)
(* A transmission (reply_text, reply_document) may raise; a conversion     *)
(* (pd.read_excel) may raise; a zf.write of zip_pairs may raise.           *)
(***************************************************************************)
EXTENDS Integers, Sequences, FiniteSets, TLC

VARIABLES
    target,     \* CSV_TARGET, read once at start (lines 20-22)
    fs,         \* regular files on disk: path -> content
    dirs,       \* directories on disk
    fs0,        \* the files as they were before the first request
    upd,        \* per request: the update (command or text) that triggered it
    handler,    \* per request: the coroutine that runs it
    pc,         \* per request: the await it is suspended at, or how it ended
    src,        \* per request: find_sources() as prepare_files saw it
    bad,        \* per request: the Excel paths whose conversion raised
    pairs,      \* per request: prepare_files()[0]
    temps,      \* per request: prepare_files()[1]
    zipPath,    \* per request: zip_path of send_zip (<<>> before packing)
    hint,       \* per request: target_hint (lines 103, 125)
    idx,        \* per request: the entry send_files is transmitting
    sent,       \* per request: the messages delivered to the chat, in order
    raised,     \* per request: the exception that left the handler ("" if none)
    created,    \* per request: the paths the request has written
    owner       \* path -> the request that wrote the file now at that path

vars == <<target, fs, dirs, fs0, upd, handler, pc, src, bad, pairs, temps,
          zipPath, hint, idx, sent, raised, created, owner>>

----------------------------------------------------------------------------
(* Characters and strings *)

UpperCase == <<"A","B","C","D","E","F","G","H","I","J","K","L","M",
               "N","O","P","Q","R","S","T","U","V","W","X","Y","Z">>
LowerCase == <<"a","b","c","d","e","f","g","h","i","j","k","l","m",
               "n","o","p","q","r","s","t","u","v","w","x","y","z">>

\* The characters of the model in code point order.
CodePoints == <<" ", ".", "/", ":">> \o UpperCase \o <<"_">> \o LowerCase

Ord(c) == CHOOSE i \in 1..Len(CodePoints) : CodePoints[i] = c

\* str.lower on one character
LowerChar(c) ==
    IF \E i \in 1..Len(UpperCase) : UpperCase[i] = c
    THEN LowerCase[CHOOSE i \in 1..Len(UpperCase) : UpperCase[i] = c]
    ELSE c

\* str.lower
Lower(s) == [i \in 1..Len(s) |-> LowerChar(s[i])]

\* str.endswith
EndsWith(s, suffix) ==
    /\ Len(suffix) <= Len(s)
    /\ SubSeq(s, Len(s) - Len(suffix) + 1, Len(s)) = suffix

\* str.strip: leading and trailing white space removed
Strip(s) ==
    LET keep == {i \in 1..Len(s) : s[i] # " "}
    IN  IF keep = {} THEN <<>>
        ELSE LET lo == CHOOSE i \in keep : \A j \in keep : i <= j
                 hi == CHOOSE i \in keep : \A j \in keep : j <= i
             IN  SubSeq(s, lo, hi)

\* s < t in Python's string order (code points, lexicographic)
RECURSIVE StrLess(_, _)
StrLess(s, t) ==
    IF t = <<>> THEN FALSE
    ELSE IF s = <<>> THEN TRUE
    ELSE IF Ord(Head(s)) # Ord(Head(t)) THEN Ord(Head(s)) < Ord(Head(t))
    ELSE StrLess(Tail(s), Tail(t))

\* The position of the last occurrence of c in s, 0 if none (str.rfind + 1)
LastIndex(s, c) ==
    LET at == {i \in 1..Len(s) : s[i] = c}
    IN  IF at = {} THEN 0 ELSE CHOOSE i \in at : \A j \in at : j <= i

\* Path(p).name: the final path component
Name(p) == SubSeq(p, LastIndex(p, "/") + 1, Len(p))

\* os.path.dirname
Dirname(p) == SubSeq(p, 1, LastIndex(p, "/") - 1)

\* Path(p).stem: the name without its last suffix; a leading or a trailing
\* dot starts no suffix
Stem(p) ==
    LET n == Name(p)
        i == LastIndex(n, ".")
    IN  IF 1 < i /\ i < Len(n) THEN SubSeq(n, 1, i - 1) ELSE n

\* os.path.join of a directory and a name
Join(d, n) == d \o <<"/">> \o n

----------------------------------------------------------------------------
(* The file system *)

\* tempfile.gettempdir()
TmpDir == <<"t">>

\* os.path.isfile
IsFile(fsys, p) == p \in DOMAIN fsys

\* open(p, "w") followed by a write of content c: the file is created or
\* replaced
WriteFile(fsys, p, c) ==
    [q \in DOMAIN fsys \cup {p} |-> IF q = p THEN c ELSE fsys[q]]

\* os.remove inside try/except-pass (lines 116-117, 119-120, 137-138): a
\* missing file is not an error
RemoveFile(fsys, p) == [q \in DOMAIN fsys \ {p} |-> fsys[q]]

RECURSIVE RemoveAll(_, _)
RemoveAll(fsys, ps) ==
    IF ps = <<>> THEN fsys ELSE RemoveAll(RemoveFile(fsys, Head(ps)), Tail(ps))

\* os.makedirs(directory, exist_ok=True): the directory and its parents
MakeDirs(dirset, directory) ==
    dirset \cup {directory}
           \cup {SubSeq(directory, 1, i - 1) :
                    i \in {j \in 2..Len(directory) : directory[j] = "/"}}

\* The elements of a sequence
Range(s) == {s[i] : i \in 1..Len(s)}

----------------------------------------------------------------------------
(* File helpers (lines 33-89) *)

\* glob.glob(os.path.join(directory, "*" + suffix)): the direct entries of
\* the directory whose name ends with the suffix, compared case-sensitively;
\* "*" does not match a name that starts with a dot
Glob(fsys, dirset, directory, suffix) ==
    {p \in DOMAIN fsys \cup dirset :
        /\ LastIndex(p, "/") > 0
        /\ Dirname(p) = directory
        /\ Name(p) # <<>>
        /\ Head(Name(p)) # "."
        /\ EndsWith(Name(p), suffix)}

\* The patterns of _list_from_dir (lines 36-41), each without its "*"
Patterns == << <<".","c","s","v">>, <<".","C","S","V">>,
               <<".","x","l","s","x">>, <<".","x","l","s">> >>

\* All orders of a finite set
RECURSIVE Orders(_)
Orders(S) ==
    IF S = {} THEN {<<>>}
    ELSE UNION {{<<x>> \o t : t \in Orders(S \ {x})} : x \in S}

\* sorted(set(files), key=lambda p: p.lower()): the set in an order that is
\* non-decreasing in the key; the order of two paths with the same key is
\* that of the set's iteration, which the hash seed decides
SortedByLower(S) ==
    {s \in Orders(S) :
        \A i \in 1..Len(s) : \A j \in (i + 1)..Len(s) :
            ~StrLess(Lower(s[j]), Lower(s[i]))}

\* _list_from_dir (lines 33-45): the lists it may return
ListFromDir(fsys, dirset, directory) ==
    SortedByLower(UNION {Glob(fsys, dirset, directory, Patterns[k]) :
                            k \in 1..Len(Patterns)})

\* find_sources (lines 47-51): the lists it may return
FindSources(fsys, dirset) ==
    IF IsFile(fsys, target) THEN {<<target>>}
    ELSE ListFromDir(fsys, MakeDirs(dirset, target), target)

\* The directories after find_sources: _list_from_dir creates the folder
DirsAfterFind(fsys, dirset) ==
    IF IsFile(fsys, target) THEN dirset ELSE MakeDirs(dirset, target)

\* df.to_csv of pd.read_excel(sheet 0) of a file with content c
CsvOf(c) == <<"csv">> \o c

\* out_path of convert_excel_to_csv (line 56)
OutPath(excel_path) ==
    Join(TmpDir, Stem(excel_path) \o <<".","c","s","v">>)

\* the display name of a converted file (line 75)
ConvertedName(p) ==
    Stem(p) \o <<"_","c","o","n","v","e","r","t","e","d",".","c","s","v">>

\* PrepareOne with the except branch dropping the path instead of falling
\* back to the original file
PrepareOneNoFallback(st, p, badset) ==
    LET lower == Lower(p) IN
    IF EndsWith(lower, <<".","c","s","v">>)
    THEN [st EXCEPT !.pairs = Append(@, <<p, Name(p)>>)]
    ELSE IF EndsWith(lower, <<".","x","l","s","x">>)
            \/ EndsWith(lower, <<".","x","l","s">>)
    THEN IF p \in badset \/ ~IsFile(st.fs, p)
         THEN st
         ELSE LET cp == Join(TmpDir, Stem(p) \o <<".","c","s","v">>) IN
              [pairs |-> Append(st.pairs,
                  <<cp, Stem(p) \o <<"_","c","o","n","v","e","r","t","e","d",
                                     ".","c","s","v">> >>),
               temps |-> Append(st.temps, cp),
               fs    |-> WriteFile(st.fs, cp, <<"csv">> \o st.fs[p])]
    ELSE st

\* One turn of the loop of prepare_files (lines 68-79) for path p, from the
\* state st = [pairs, temps, fs]; badset holds the paths whose conversion
\* raises (pd.read_excel, line 55)
PrepareOne(st, p, badset) ==
    LET lower == Lower(p) IN
    IF EndsWith(lower, <<".","c","s","v">>)
    THEN [st EXCEPT !.pairs = Append(@, <<p, Name(p)>>)]
    ELSE IF EndsWith(lower, <<".","x","l","s","x">>)
            \/ EndsWith(lower, <<".","x","l","s">>)
    THEN IF p \in badset \/ ~IsFile(st.fs, p)
         THEN [st EXCEPT !.pairs = Append(@, <<p, Name(p)>>)]
         ELSE LET cp == OutPath(p) IN
              [pairs |-> Append(st.pairs, <<cp, ConvertedName(p)>>),
               temps |-> Append(st.temps, cp),
               fs    |-> WriteFile(st.fs, cp, CsvOf(st.fs[p]))]
    ELSE st

RECURSIVE PrepareLoop(_, _, _)
PrepareLoop(st, paths, badset) ==
    IF paths = <<>> THEN st
    ELSE PrepareLoop(PrepareOne(st, Head(paths), badset), Tail(paths), badset)

\* prepare_files (lines 60-80) on the sources found: [pairs, temps, fs]
PrepareFiles(paths, fsys, badset) ==
    PrepareLoop([pairs |-> <<>>, temps |-> <<>>, fs |-> fsys], paths, badset)

\* ZipPath with a name of the handler's own: one underscore per handler
\* that is running when the archive is packed
ZipPathPerTask ==
    Join(TmpDir,
         [i \in 1..Cardinality({q \in DOMAIN pc :
                                  pc[q] \notin {"new", "returned", "raised"}})
             |-> "_"]
         \o <<"t","e","s","t","_","p","o","r","t","f","o","l","i","o","s",
              ".","z","i","p">>)

\* zip_path of zip_pairs (line 84)
ZipPath ==
    Join(TmpDir, <<"t","e","s","t","_","p","o","r","t","f","o","l","i","o","s",
                   ".","z","i","p">>)

\* The entries zip_pairs writes (lines 86-88): one per pair whose path is a
\* file, under the pair's display name
RECURSIVE ZipEntries(_, _)
ZipEntries(ps, fsys) ==
    IF ps = <<>> THEN <<>>
    ELSE (IF IsFile(fsys, Head(ps)[1])
          THEN << <<Head(ps)[2], fsys[Head(ps)[1]]>> >>
          ELSE <<>>) \o ZipEntries(Tail(ps), fsys)

\* ZipPairs without the os.path.isfile test: zf.write of a missing file
\* raises FileNotFoundError
ZipPairsNoIsFile(ps, fsys, failAt) ==
    LET upto    == IF failAt = 0 THEN ps ELSE SubSeq(ps, 1, failAt - 1)
        missing == {k \in 1..Len(upto) : ~IsFile(fsys, upto[k][1])}
        first   == CHOOSE k \in missing : \A j \in missing : k <= j
        done    == IF missing = {} THEN upto ELSE SubSeq(upto, 1, first - 1)
    IN  [path |-> ZipPath,
         fs   |-> WriteFile(fsys, ZipPath, <<"zip", ZipEntries(done, fsys)>>),
         exc  |-> IF missing # {} THEN "FileNotFoundError"
                  ELSE IF failAt = 0 THEN "" ELSE "OSError"]

\* zip_pairs (lines 82-89).  failAt = 0: every zf.write succeeds.  failAt =
\* k > 0: zf.write of pair k raises OSError (unreadable source, full disk);
\* the with-block closes the archive with the entries written before it.
\* Result: [path, fs, exc].
ZipPairs(ps, fsys, failAt) ==
    LET done == IF failAt = 0 THEN ps ELSE SubSeq(ps, 1, failAt - 1)
    IN  [path |-> ZipPath,
         fs   |-> WriteFile(fsys, ZipPath, <<"zip", ZipEntries(done, fsys)>>),
         exc  |-> IF failAt = 0 THEN "" ELSE "OSError"]

\* The pairs at which a zf.write can raise: those zip_pairs does write
WritePoints(ps, fsys) == {k \in 1..Len(ps) : IsFile(fsys, ps[k][1])}

----------------------------------------------------------------------------
(* Bounds and inputs *)

\* The number of handlers that may be suspended at an await at once, when
\* the framework dispatches updates concurrently
MaxOverlap == 2

\* The number of files on disk before the first request
MaxFiles == 2

Req == 1..MaxOverlap

SrcDir == <<"d">>

\* The files that may be on disk at the start: spreadsheets with extensions
\* in several cases, some with the same stem or the same lower-cased path,
\* an unrelated one, and two in the scratch directory
Candidates ==
    { Join(SrcDir, <<"a",".","c","s","v">>),
      Join(SrcDir, <<"a",".","x","l","s">>),
      Join(SrcDir, <<"a",".","x","l","s","x">>),
      Join(SrcDir, <<"a",".","C","S","V">>),
      Join(SrcDir, <<"b",".","X","L","S","X">>),
      Join(SrcDir, <<"n",".","t","x","t">>),
      Join(TmpDir, <<"a",".","c","s","v">>),
      Join(TmpDir, <<"a",".","x","l","s","x">>) }

\* The values CSV_TARGET may have: a folder, the scratch folder, a file with
\* an unrelated extension, an Excel file with an upper-case extension
Targets ==
    { SrcDir, TmpDir,
      Join(SrcDir, <<"n",".","t","x","t">>),
      Join(SrcDir, <<"b",".","X","L","S","X">>) }

\* The content of a file that was on disk at the start
RawOf(p) == <<"raw">> \o p

\* The updates a chat may send: the three commands and free texts
Updates ==
    { [cmd |-> "start", text |-> <<>>],
      [cmd |-> "zip",   text |-> <<>>],
      [cmd |-> "files", text |-> <<>>],
      [cmd |-> "text",  text |-> <<"h","i">>],
      [cmd |-> "text",  text |-> <<" ","H","i"," ">>],
      [cmd |-> "text",  text |-> <<"h","i","p">>] }

NoUpdate == [cmd |-> "", text |-> <<>>]

----------------------------------------------------------------------------
(* Telegram handlers (lines 96-158) *)

\* Route with on_text comparing the text as typed, neither stripped nor
\* lower-cased
RouteNoStrip(u) ==
    IF u.cmd \in {"start", "zip"} THEN "send_zip"
    ELSE IF u.cmd = "files" THEN "send_files"
    ELSE IF u.text = <<"h","i">> THEN "send_zip"
    ELSE "help"

\* The handler an update reaches: main's add_handler calls (lines 155-158),
\* start_cmd (lines 140-141) and on_text (lines 143-151)
Route(u) ==
    IF u.cmd \in {"start", "zip"} THEN "send_zip"
    ELSE IF u.cmd = "files" THEN "send_files"
    ELSE IF Lower(Strip(u.text)) = <<"h","i">> THEN "send_zip"
    ELSE "help"

\* TargetHint without the configured path
TargetHintNoPath(fsys) ==
    IF IsFile(fsys, target) THEN <<"f","i","l","e">>
    ELSE <<"f","o","l","d","e","r">>

\* target_hint (lines 103, 125)
TargetHint(fsys) ==
    IF IsFile(fsys, target) THEN target
    ELSE <<"f","o","l","d","e","r",":"," ">> \o target

\* filename of the archive document (line 112)
ZipDocName ==
    <<"t","e","s","t","_","p","o","r","t","f","o","l","i","o","s",
      ".","z","i","p">>

\* The messages a handler delivers
LinkMsg        == [kind |-> "link",     name |-> <<>>]
HelpMsg        == [kind |-> "help",     name |-> <<>>]
NoFilesMsg(h)  == [kind |-> "nofiles",  name |-> h]
Document(n)    == [kind |-> "document", name |-> n]

\* Who wrote the file at each path, after request r wrote the paths in
\* written and the files became fsNew
OwnerAfter(fsNew, written, r) ==
    [p \in DOMAIN fsNew \cap (DOMAIN owner \cup written) |->
        IF p \in written THEN r ELSE owner[p]]

\* The finally block of send_zip (lines 115-120)
CleanupZip(fsys, zp, ts) == RemoveAll(RemoveFile(fsys, zp), ts)

\* The finally block of send_files (lines 135-138)
CleanupFiles(fsys, ts) == RemoveAll(fsys, ts)

Init ==
    /\ target \in Targets
    /\ \E files \in {F \in SUBSET Candidates : Cardinality(F) <= MaxFiles} :
          /\ fs = [p \in files |-> RawOf(p)]
          /\ dirs = {TmpDir} \cup {Dirname(p) : p \in files}
    /\ fs0 = fs
    /\ upd = [r \in Req |-> NoUpdate]
    /\ handler = [r \in Req |-> ""]
    /\ pc = [r \in Req |-> "new"]
    /\ src = [r \in Req |-> <<>>]
    /\ bad = [r \in Req |-> {}]
    /\ pairs = [r \in Req |-> <<>>]
    /\ temps = [r \in Req |-> <<>>]
    /\ zipPath = [r \in Req |-> <<>>]
    /\ hint = [r \in Req |-> <<>>]
    /\ idx = [r \in Req |-> 0]
    /\ sent = [r \in Req |-> <<>>]
    /\ raised = [r \in Req |-> ""]
    /\ created = [r \in Req |-> {}]
    /\ owner = <<>>


\* The handler of request r is not running
Idle(r) == pc[r] \in {"new", "returned", "raised"}

\* An update arrives and its handler, a new coroutine with new locals, runs
\* to its first await: reply_text of send_link (line 98) or of the help text
\* (line 148)
Dispatch(r, u) ==
    /\ Idle(r)
    /\ upd' = [upd EXCEPT ![r] = u]
    /\ handler' = [handler EXCEPT ![r] = Route(u)]
    /\ pc' = [pc EXCEPT ![r] = IF Route(u) = "help" THEN "await_help"
                                                    ELSE "await_link"]
    /\ src' = [src EXCEPT ![r] = <<>>]
    /\ bad' = [bad EXCEPT ![r] = {}]
    /\ pairs' = [pairs EXCEPT ![r] = <<>>]
    /\ temps' = [temps EXCEPT ![r] = <<>>]
    /\ zipPath' = [zipPath EXCEPT ![r] = <<>>]
    /\ hint' = [hint EXCEPT ![r] = <<>>]
    /\ idx' = [idx EXCEPT ![r] = 0]
    /\ sent' = [sent EXCEPT ![r] = <<>>]
    /\ raised' = [raised EXCEPT ![r] = ""]
    /\ created' = [created EXCEPT ![r] = {}]
    /\ owner' = [p \in DOMAIN owner |-> IF owner[p] = r THEN 0 ELSE owner[p]]
    /\ UNCHANGED <<target, fs, dirs, fs0>>

\* send_zip from prepare_files to its next await or its end (lines 102-110),
\* for the sources found, the conversions that raise and the zf.write that
\* raises
ZipAfterLink(r, paths, badset, failAt) ==
    LET prep == PrepareFiles(paths, fs, badset)
        z    == ZipPairs(prep.pairs, prep.fs, failAt)
    IN  /\ src' = [src EXCEPT ![r] = paths]
        /\ bad' = [bad EXCEPT ![r] = badset]
        /\ pairs' = [pairs EXCEPT ![r] = prep.pairs]
        /\ temps' = [temps EXCEPT ![r] = prep.temps]
        /\ dirs' = DirsAfterFind(fs, dirs)
        /\ hint' = [hint EXCEPT ![r] = TargetHint(prep.fs)]
        /\ sent' = [sent EXCEPT ![r] = Append(@, LinkMsg)]
        /\ UNCHANGED <<target, fs0, upd, handler, idx>>
        /\ IF prep.pairs = <<>>
           THEN /\ failAt = 0
                /\ pc' = [pc EXCEPT ![r] = "await_nofiles"]
                /\ fs' = prep.fs
                /\ created' = [created EXCEPT ![r] = Range(prep.temps)]
                /\ owner' = OwnerAfter(prep.fs, Range(prep.temps), r)
                /\ UNCHANGED <<zipPath, raised>>
           ELSE /\ failAt \in {0} \cup WritePoints(prep.pairs, prep.fs)
                /\ fs' = z.fs
                /\ created' = [created EXCEPT
                                  ![r] = Range(prep.temps) \cup {z.path}]
                /\ owner' = OwnerAfter(z.fs, Range(prep.temps) \cup {z.path}, r)
                /\ IF z.exc # ""
                   THEN /\ pc' = [pc EXCEPT ![r] = "raised"]
                        /\ raised' = [raised EXCEPT ![r] = z.exc]
                        /\ UNCHANGED zipPath
                   ELSE /\ pc' = [pc EXCEPT ![r] = "await_zip"]
                        /\ zipPath' = [zipPath EXCEPT ![r] = z.path]
                        /\ UNCHANGED raised

\* send_files from prepare_files to its next await or its end (lines
\* 124-132)
FilesAfterLink(r, paths, badset) ==
    LET prep == PrepareFiles(paths, fs, badset)
    IN  /\ src' = [src EXCEPT ![r] = paths]
        /\ bad' = [bad EXCEPT ![r] = badset]
        /\ pairs' = [pairs EXCEPT ![r] = prep.pairs]
        /\ temps' = [temps EXCEPT ![r] = prep.temps]
        /\ dirs' = DirsAfterFind(fs, dirs)
        /\ hint' = [hint EXCEPT ![r] = TargetHint(prep.fs)]
        /\ sent' = [sent EXCEPT ![r] = Append(@, LinkMsg)]
        /\ created' = [created EXCEPT ![r] = Range(prep.temps)]
        /\ UNCHANGED <<target, fs0, upd, handler, zipPath>>
        /\ IF prep.pairs = <<>>
           THEN /\ pc' = [pc EXCEPT ![r] = "await_nofiles"]
                /\ fs' = prep.fs
                /\ owner' = OwnerAfter(prep.fs, Range(prep.temps), r)
                /\ UNCHANGED <<idx, raised>>
           ELSE IF IsFile(prep.fs, prep.pairs[1][1])
           THEN /\ pc' = [pc EXCEPT ![r] = "await_file"]
                /\ idx' = [idx EXCEPT ![r] = 1]
                /\ fs' = prep.fs
                /\ owner' = OwnerAfter(prep.fs, Range(prep.temps), r)
                /\ UNCHANGED raised
           ELSE /\ pc' = [pc EXCEPT ![r] = "raised"]
                /\ raised' = [raised EXCEPT ![r] = "FileNotFoundError"]
                /\ idx' = [idx EXCEPT ![r] = 1]
                /\ fs' = CleanupFiles(prep.fs, prep.temps)
                /\ owner' = OwnerAfter(CleanupFiles(prep.fs, prep.temps), {}, r)

\* The Excel paths among the sources: those whose conversion may raise
ExcelPaths(paths) ==
    {p \in Range(paths) :
        /\ ~EndsWith(Lower(p), <<".","c","s","v">>)
        /\ \/ EndsWith(Lower(p), <<".","x","l","s","x">>)
           \/ EndsWith(Lower(p), <<".","x","l","s">>)}

\* reply_text of send_link returns (line 98) and the handler goes on
LinkDelivered(r) ==
    /\ pc[r] = "await_link"
    /\ \E paths \in FindSources(fs, dirs) :
       \E badset \in SUBSET ExcelPaths(paths) :
          IF handler[r] = "send_zip"
          THEN \E failAt \in 0..Len(paths) :
                  ZipAfterLink(r, paths, badset, failAt)
          ELSE FilesAfterLink(r, paths, badset)

\* reply_text of the no-files notice returns (lines 105-106, 127-128)
NoFilesDelivered(r) ==
    /\ pc[r] = "await_nofiles"
    /\ sent' = [sent EXCEPT ![r] = Append(@, NoFilesMsg(hint[r]))]
    /\ pc' = [pc EXCEPT ![r] = "returned"]
    /\ UNCHANGED <<target, fs, dirs, fs0, upd, handler, src, bad, pairs, temps,
                   zipPath, hint, idx, raised, created, owner>>

\* reply_document of the archive returns (lines 110-114), then the finally
\* block (lines 115-120)
ZipDelivered(r) ==
    /\ pc[r] = "await_zip"
    /\ sent' = [sent EXCEPT ![r] = Append(@, Document(ZipDocName))]
    /\ fs' = CleanupZip(fs, zipPath[r], temps[r])
    /\ owner' = OwnerAfter(CleanupZip(fs, zipPath[r], temps[r]), {}, r)
    /\ pc' = [pc EXCEPT ![r] = "returned"]
    /\ UNCHANGED <<target, dirs, fs0, upd, handler, src, bad, pairs, temps,
                   zipPath, hint, idx, raised, created>>

\* reply_document of entry idx returns (lines 132-134); the loop opens the
\* next entry (line 131) or ends, and the finally block runs (lines 135-138)
FileDelivered(r) ==
    /\ pc[r] = "await_file"
    /\ sent' = [sent EXCEPT ![r] = Append(@, Document(pairs[r][idx[r]][2]))]
    /\ IF idx[r] = Len(pairs[r])
       THEN /\ pc' = [pc EXCEPT ![r] = "returned"]
            /\ fs' = CleanupFiles(fs, temps[r])
            /\ owner' = OwnerAfter(CleanupFiles(fs, temps[r]), {}, r)
            /\ UNCHANGED <<idx, raised>>
       ELSE IF IsFile(fs, pairs[r][idx[r] + 1][1])
       THEN /\ pc' = [pc EXCEPT ![r] = "await_file"]
            /\ idx' = [idx EXCEPT ![r] = @ + 1]
            /\ UNCHANGED <<fs, owner, raised>>
       ELSE /\ pc' = [pc EXCEPT ![r] = "raised"]
            /\ raised' = [raised EXCEPT ![r] = "FileNotFoundError"]
            /\ idx' = [idx EXCEPT ![r] = @ + 1]
            /\ fs' = CleanupFiles(fs, temps[r])
            /\ owner' = OwnerAfter(CleanupFiles(fs, temps[r]), {}, r)
    /\ UNCHANGED <<target, dirs, fs0, upd, handler, src, bad, pairs, temps,
                   zipPath, hint, created>>

\* reply_text of the help text returns (lines 148-151)
HelpDelivered(r) ==
    /\ pc[r] = "await_help"
    /\ sent' = [sent EXCEPT ![r] = Append(@, HelpMsg)]
    /\ pc' = [pc EXCEPT ![r] = "returned"]
    /\ UNCHANGED <<target, fs, dirs, fs0, upd, handler, src, bad, pairs, temps,
                   zipPath, hint, idx, raised, created, owner>>

\* The awaited transmission raises (a TelegramError): the exception leaves
\* the handler, through the finally block when the await is inside one
TransmissionFails(r) ==
    /\ pc[r] \in {"await_link", "await_nofiles", "await_help",
                  "await_zip", "await_file"}
    /\ pc' = [pc EXCEPT ![r] = "raised"]
    /\ raised' = [raised EXCEPT ![r] = "TelegramError"]
    /\ fs' = IF pc[r] = "await_zip" THEN CleanupZip(fs, zipPath[r], temps[r])
             ELSE IF pc[r] = "await_file" THEN CleanupFiles(fs, temps[r])
             ELSE fs
    /\ owner' = OwnerAfter(fs', {}, r)
    /\ UNCHANGED <<target, dirs, fs0, upd, handler, src, bad, pairs, temps,
                   zipPath, hint, idx, sent, created>>

\* A step of the handler of request r after its dispatch
Step(r) ==
    \/ LinkDelivered(r)
    \/ NoFilesDelivered(r)
    \/ ZipDelivered(r)
    \/ FileDelivered(r)
    \/ HelpDelivered(r)
    \/ TransmissionFails(r)

\* Application.builder()...build() without concurrent_updates (line 154):
\* run_polling (line 159) processes the updates one by one, the next one
\* after the handler of the last has returned or raised
DispatchOneByOne(u) ==
    /\ \A q \in Req : Idle(q)
    /\ Dispatch(1, u)

Next ==
    \/ \E u \in Updates : DispatchOneByOne(u)
    \/ Step(1)

Spec == Init /\ [][Next]_vars

\* The framework dispatching updates concurrently: the handlers of
\* different updates interleave at their awaits.  A new handler takes the
\* first free slot.
DispatchConcurrently(r, u) ==
    /\ \A q \in Req : q < r => ~Idle(q)
    /\ Dispatch(r, u)

\* The files on disk at the start of the concurrent runs
OverlapFiles ==
    { {},
      {Join(SrcDir, <<"a",".","c","s","v">>),
       Join(SrcDir, <<"a",".","x","l","s","x">>)} }

\* The updates of the concurrent runs: one per handler
OverlapUpdates ==
    { [cmd |-> "zip",   text |-> <<>>],
      [cmd |-> "files", text |-> <<>>],
      [cmd |-> "text",  text |-> <<"h","i","p">>] }

InitOverlap ==
    /\ Init
    /\ target = SrcDir
    /\ DOMAIN fs \in OverlapFiles

NextOverlap ==
    \E r \in Req :
        \/ \E u \in OverlapUpdates : DispatchConcurrently(r, u)
        \/ Step(r)

SpecOverlap == InitOverlap /\ [][NextOverlap]_vars

----------------------------------------------------------------------------
(* The file helpers applied on their own, to the files of Init *)

\* find_sources() is called (lines 47-51)
ApplyFindSources ==
    /\ pc[1] = "new"
    /\ \E paths \in FindSources(fs, dirs) : src' = [src EXCEPT ![1] = paths]
    /\ dirs' = DirsAfterFind(fs, dirs)
    /\ pc' = [pc EXCEPT ![1] = "found"]
    /\ UNCHANGED <<target, fs, fs0, upd, handler, bad, pairs, temps, zipPath,
                   hint, idx, sent, raised, created, owner>>

\* prepare_files() is called (lines 60-80); the conversions of badset raise
ApplyPrepareFiles ==
    /\ pc[1] \in {"new", "found"}
    /\ \E paths \in FindSources(fs, dirs) :
       \E badset \in SUBSET ExcelPaths(paths) :
          LET prep == PrepareFiles(paths, fs, badset)
          IN  /\ src' = [src EXCEPT ![1] = paths]
              /\ bad' = [bad EXCEPT ![1] = badset]
              /\ pairs' = [pairs EXCEPT ![1] = prep.pairs]
              /\ temps' = [temps EXCEPT ![1] = prep.temps]
              /\ fs' = prep.fs
    /\ dirs' = DirsAfterFind(fs, dirs)
    /\ pc' = [pc EXCEPT ![1] = "prepared"]
    /\ UNCHANGED <<target, fs0, upd, handler, zipPath, hint, idx, sent, raised,
                   created, owner>>

\* Between prepare_files and zip_pairs the file of an entry disappears: the
\* case of the os.path.isfile test of zip_pairs (line 87)
FileVanishes(p) ==
    /\ pc[1] \in {"prepared", "stale", "packed", "pack_raised"}
    /\ p \in DOMAIN fs
    /\ \E k \in 1..Len(pairs[1]) : pairs[1][k][1] = p
    /\ fs' = RemoveFile(fs, p)
    /\ pc' = [pc EXCEPT ![1] = "stale"]
    /\ UNCHANGED <<target, dirs, fs0, upd, handler, src, bad, pairs, temps,
                   zipPath, hint, idx, sent, raised, created, owner>>

\* zip_pairs(pairs) is called (lines 82-89), also with no pairs and also
\* again, over the archive of an earlier call
ApplyZipPairs(failAt) ==
    /\ pc[1] \in {"prepared", "stale", "packed", "pack_raised"}
    /\ failAt \in {0} \cup WritePoints(pairs[1], fs)
    /\ LET z == ZipPairs(pairs[1], fs, failAt)
       IN  /\ fs' = z.fs
           /\ raised' = [raised EXCEPT ![1] = z.exc]
           /\ IF z.exc = ""
              THEN /\ zipPath' = [zipPath EXCEPT ![1] = z.path]
                   /\ pc' = [pc EXCEPT ![1] = "packed"]
              ELSE /\ pc' = [pc EXCEPT ![1] = "pack_raised"]
                   /\ UNCHANGED zipPath
    /\ UNCHANGED <<target, dirs, fs0, upd, handler, src, bad, pairs, temps,
                   hint, idx, sent, created, owner>>

NextFiles ==
    \/ ApplyFindSources
    \/ ApplyPrepareFiles
    \/ \E p \in DOMAIN fs : FileVanishes(p)
    \/ \E failAt \in 0..Len(pairs[1]) : ApplyZipPairs(failAt)

SpecFiles == Init /\ [][NextFiles]_vars

----------------------------------------------------------------------------
(* The claims *)

\* Whether the extension of path p, compared case-insensitively, is .csv,
\* .xlsx or .xls
IsCsv(p) == EndsWith(Lower(Name(p)), <<".","c","s","v">>)
IsExcel(p) ==
    \/ EndsWith(Lower(Name(p)), <<".","x","l","s","x">>)
    \/ EndsWith(Lower(Name(p)), <<".","x","l","s">>)
IsSheet(p) == IsCsv(p) \/ IsExcel(p)

\* The number of occurrences of x in the sequence s
Count(s, x) == Cardinality({k \in 1..Len(s) : s[k] = x})

\* The indices of the paths of request r that are spreadsheets, and the
\* position in pairs of the entry of the path at index i
SheetIdx(r) == {i \in 1..Len(src[r]) : IsSheet(src[r][i])}
EntryPos(r, i) == Cardinality({j \in SheetIdx(r) : j <= i})

\* The file at path f is one request r wrote and nobody wrote since
OwnedBy(r, f) == f \in DOMAIN fs /\ f \in DOMAIN owner /\ owner[f] = r

\* prepare_files of the handler of request r has run
Prepared(r) == handler[r] \in {"send_zip", "send_files"} /\ sent[r] # <<>>

\* C1 (as claimed): when send_zip or send_files has returned or raised, no
\* temp artifact the request created (a converted CSV, the archive) is still
\* on disk.
C1_TempsGoneAtReturn ==
    \A r \in Req :
        pc[r] \in {"returned", "raised"} =>
            \A f \in created[r] : ~OwnedBy(r, f)

\* C2 (as claimed): find_sources returns [CSV_TARGET] when that is a file;
\* otherwise exactly the direct entries of the folder whose extension is
\* .csv, .xlsx or .xls in any case, without duplicates, sorted by
\* lower-cased path.
C2_FindSources ==
    pc[1] = "found" =>
        IF IsFile(fs, target) THEN src[1] = <<target>>
        ELSE /\ Range(src[1]) = {p \in DOMAIN fs :
                                    Dirname(p) = target /\ IsSheet(p)}
             /\ \A i, j \in 1..Len(src[1]) : i # j => src[1][i] # src[1][j]
             /\ \A i, j \in 1..Len(src[1]) :
                    i < j => ~StrLess(Lower(src[1][j]), Lower(src[1][i]))

\* C3: when the conversion of an Excel path raises, prepare_files goes on:
\* the path gets the entry (path, its file name), no temp is recorded for
\* it, and every path, the later ones included, has its entry.
C3_ConversionFailureIsLocal ==
    pc[1] = "prepared" =>
        /\ Len(pairs[1]) = Cardinality(SheetIdx(1))
        /\ \A i \in SheetIdx(1) :
              src[1][i] \in bad[1] =>
                  pairs[1][EntryPos(1, i)] = <<src[1][i], Name(src[1][i])>>
        /\ Len(temps[1]) =
              Cardinality({i \in SheetIdx(1) :
                              IsExcel(src[1][i]) /\ ~IsCsv(src[1][i])
                              /\ src[1][i] \notin bad[1]})

\* C3's case: a conversion raised and a later path follows it
C3_Witness ==
    /\ pc[1] = "prepared"
    /\ \E i, j \in 1..Len(src[1]) : i < j /\ src[1][i] \in bad[1]
    /\ Len(pairs[1]) = Len(src[1])

\* C4 (as claimed): for paths that are all .csv/.xlsx/.xls, prepare_files
\* returns one entry per path in the order of the paths; a .csv path gives
\* (path, file name) and adds no temp; a converted path gives (a scratch
\* file, <stem>_converted.csv) and the scratch file is in temps exactly once.
C4_PrepareFiles ==
    (pc[1] = "prepared" /\ \A i \in 1..Len(src[1]) : IsSheet(src[1][i])) =>
        /\ Len(pairs[1]) = Len(src[1])
        /\ Len(temps[1]) =
              Cardinality({i \in 1..Len(src[1]) :
                              ~IsCsv(src[1][i]) /\ src[1][i] \notin bad[1]})
        /\ \A i \in 1..Len(src[1]) :
              LET p == src[1][i] IN
              IF IsCsv(p)
              THEN pairs[1][i] = <<p, Name(p)>>
              ELSE p \notin bad[1] =>
                   /\ pairs[1][i][2] =
                        Stem(p) \o <<"_","c","o","n","v","e","r","t","e","d",
                                     ".","c","s","v">>
                   /\ pairs[1][i][1] # p
                   /\ Dirname(pairs[1][i][1]) = TmpDir
                   /\ IsFile(fs, pairs[1][i][1])
                   /\ Count(temps[1], pairs[1][i][1]) = 1

\* The pairs of request 1 whose file exists, and the rank of pair k among
\* them
C5_Kept == {k \in 1..Len(pairs[1]) : IsFile(fs, pairs[1][k][1])}
C5_Rank(k) == Cardinality({j \in C5_Kept : j <= k})

\* C5: zip_pairs writes the archive anew at <tmp>/test_portfolios.zip and
\* returns that path; its entries are, in order, the display names (and
\* bytes) of the pairs whose file exists; a missing file raises nothing,
\* and with no pairs the archive is empty.
C5_ZipPairs ==
    /\ pc[1] \in {"packed", "pack_raised"} =>
          /\ raised[1] # "FileNotFoundError"
          /\ pairs[1] = <<>> => pc[1] = "packed"
    /\ pc[1] = "packed" =>
          /\ zipPath[1] = <<"t","/","t","e","s","t","_","p","o","r","t","f",
                            "o","l","i","o","s",".","z","i","p">>
          /\ IsFile(fs, zipPath[1])
          /\ fs[zipPath[1]][1] = "zip"
          /\ Len(fs[zipPath[1]][2]) = Cardinality(C5_Kept)
          /\ \A k \in C5_Kept :
                fs[zipPath[1]][2][C5_Rank(k)] =
                    <<pairs[1][k][2], fs[pairs[1][k][1]]>>

\* C5's case: an archive packed from pairs of which one file is missing and
\* one is there
C5_Witness ==
    /\ pc[1] = "packed"
    /\ \E k \in 1..Len(pairs[1]) : ~IsFile(fs, pairs[1][k][1])
    /\ \E k \in 1..Len(pairs[1]) : IsFile(fs, pairs[1][k][1])
    /\ Len(fs[zipPath[1]][2]) < Len(pairs[1])

\* C6: a request that finds no files raises nothing of its own (only a
\* failed transmission can end it), creates no file, sends no document, and
\* when it returns has sent the link and then one notice that ends with the
\* configured path; a notice is sent only by a request that found no files.
C6_NoFiles ==
    \A r \in Req :
        LET notices == {i \in 1..Len(sent[r]) : sent[r][i].kind = "nofiles"}
        IN  /\ (Prepared(r) /\ pairs[r] = <<>>) =>
                  /\ pc[r] \in {"await_nofiles", "returned", "raised"}
                  /\ raised[r] \in {"", "TelegramError"}
                  /\ created[r] = {}
                  /\ temps[r] = <<>>
                  /\ zipPath[r] = <<>>
                  /\ \A i \in 1..Len(sent[r]) : sent[r][i].kind # "document"
                  /\ pc[r] = "returned" =>
                        /\ Len(sent[r]) = 2
                        /\ sent[r][1] = LinkMsg
                        /\ sent[r][2].kind = "nofiles"
                        /\ EndsWith(sent[r][2].name, target)
            /\ notices # {} =>
                  /\ Prepared(r)
                  /\ pairs[r] = <<>>
                  /\ Cardinality(notices) = 1

\* C6's case: a request that found no files has returned
C6_Witness ==
    \E r \in Req :
        /\ pc[r] = "returned"
        /\ Prepared(r)
        /\ pairs[r] = <<>>
        /\ Len(sent[r]) = 2

C8_WantsArchive(u) ==
    \/ u.cmd \in {"zip", "start"}
    \/ u.cmd = "text" /\ Lower(Strip(u.text)) = <<"h","i">>

\* C8: a request with entries that returns (nothing raised) has sent, after
\* the link, the archive as its one document (/zip, /start, "hi"), or one
\* document per entry in entry order under the entry's display name
\* (/files); the first message of these requests is the link and a document
\* is never sent before it; any other text gets the help reply alone, with
\* no discovery, conversion or scratch file.
C8_Triggers ==
    \A r \in Req :
        /\ (pc[r] = "returned" /\ pairs[r] # <<>> /\ C8_WantsArchive(upd[r])) =>
              sent[r] = <<LinkMsg, Document(ZipDocName)>>
        /\ (pc[r] = "returned" /\ pairs[r] # <<>> /\ upd[r].cmd = "files") =>
              sent[r] = <<LinkMsg>> \o
                        [i \in 1..Len(pairs[r]) |-> Document(pairs[r][i][2])]
        /\ ((C8_WantsArchive(upd[r]) \/ upd[r].cmd = "files") /\ sent[r] # <<>>) =>
              sent[r][1] = LinkMsg
        /\ \A i \in 1..Len(sent[r]) :
              sent[r][i].kind = "document" => (i > 1 /\ sent[r][1] = LinkMsg)
        /\ (upd[r].cmd = "text" /\ ~C8_WantsArchive(upd[r])) =>
              /\ src[r] = <<>> /\ pairs[r] = <<>> /\ temps[r] = <<>>
              /\ created[r] = {}
              /\ \A i \in 1..Len(sent[r]) : sent[r][i] = HelpMsg
              /\ pc[r] = "returned" => sent[r] = <<HelpMsg>>

\* C8's case: /files has sent two documents and returned
C8_Witness ==
    \E r \in Req :
        /\ pc[r] = "returned"
        /\ upd[r].cmd = "files"
        /\ Len(pairs[r]) = 2
        /\ Len(sent[r]) = 3

\* C9 (as claimed): every file that was on disk before the requests is
\* still there with the content it had.
C9_OtherFilesUntouched ==
    \A f \in DOMAIN fs0 : IsFile(fs, f) /\ fs[f] = fs0[f]

\* C10 (as claimed): after prepare_files the entries of distinct paths have
\* distinct effective paths, and the scratch file of a converted entry holds
\* the conversion of that entry's own source.
C10_DistinctEffectivePaths ==
    pc[1] = "prepared" =>
        /\ \A i, j \in SheetIdx(1) :
              i # j => pairs[1][EntryPos(1, i)][1] # pairs[1][EntryPos(1, j)][1]
        /\ \A i \in SheetIdx(1) :
              (IsExcel(src[1][i]) /\ ~IsCsv(src[1][i])
               /\ src[1][i] \notin bad[1]) =>
                  /\ IsFile(fs, pairs[1][EntryPos(1, i)][1])
                  /\ fs[pairs[1][EntryPos(1, i)][1]] = <<"csv">> \o fs0[src[1][i]]

====
